---- MODULE Spec2Model ----
(***************************************************************************)
(* A model of mpsc::detail::Channel<T>, the Sender<T> / Receiver<T>        *)
(* handles and Receiver<T>::iterator of include/mpsc/channel.hpp.          *)
(*                                                                         *)
(* Every Sender handle is used by a thread of its own; one consumer thread *)
(* uses the Receiver handles and the iterator.  The mutex is a variable    *)
(* naming its owner, the condition variable is the flag parked (the        *)
(* consumer is suspended in condvar.wait); a notify_one un-parks it, and   *)
(* so may a spurious wakeup.  Everything a thread does while it holds the  *)
(* mutex is one step; taking the mutex and the notify_one issued after the *)
(* unlock are steps of their own.                                          *)
(***************************************************************************)
EXTENDS Integers, Sequences, FiniteSets, TLC

\* ------------------------------------------------------------------ bounds
MaxSends == 2          \* send() calls forwarded to the channel, per Sender
MaxCalls == 5          \* calls on valid handles, and copies, moves and
                       \* destructions of handles, by all threads together

\* ----------------------------------------------------------------- threads
Senders == {"tx1", "tx2"}
Receivers == {"rx1", "rx2"}
Consumer == "consumer"
Threads == Senders \cup {Consumer}
NoThread == "nobody"
nullptr == "nullptr"

\* ----------------------------------------------------------------- results
\* What a call gave back: std::optional<T>, bool, void, or an exception.
nullopt == [k |-> "nullopt", v |-> <<>>]
Some(x) == [k |-> "value", v |-> x]
Void == [k |-> "void", v |-> <<>>]
Bool(b) == [k |-> IF b THEN "true" ELSE "false", v |-> <<>>]
channel_closed_exception == [k |-> "channel_closed_exception", v |-> <<>>]
invalid_argument == [k |-> "invalid_argument", v |-> <<>>]
NoResult == [k |-> "none", v |-> <<>>]

VARIABLES
    queue,        \* Channel::queue
    closed,       \* Channel::_closed
    need_notify,  \* Channel::need_notify
    mutex,        \* owner of Channel::mutex, or NoThread
    parked,       \* the consumer is suspended inside condvar.wait
    pc,           \* where each thread is
    res,          \* what each thread's last completed call gave back
    sender,       \* state of each Sender handle
    receiver,     \* state of each Receiver handle
    ctx,          \* what the consumer's channel call was made from
    it,           \* Receiver<T>::iterator: its receiver pointer and current
    cnt,          \* calls made so far (bounds the model)
    hist          \* history: what was accepted, delivered, and the iterator's run

vars == <<queue, closed, need_notify, mutex, parked, pc, res, sender, receiver,
          ctx, it, cnt, hist>>

chan == <<queue, closed, need_notify>>

\* ------------------------------------------------------------------- state
\* channel.hpp:103-107 (Channel's members), 276-279 (make_channel), 209, 239
Init ==
    /\ queue = <<>>
    /\ closed = FALSE
    /\ need_notify = FALSE
    /\ mutex = NoThread
    /\ parked = FALSE
    /\ pc = [t \in Threads |-> "idle"]
    /\ res = [t \in Threads |-> NoResult]
    /\ sender = [s \in Senders |-> IF s = "tx1" THEN "valid" ELSE "unborn"]
    /\ receiver = [r \in Receivers |-> IF r = "rx1" THEN "valid" ELSE "unborn"]
    /\ ctx = "direct"
    /\ it = [receiver |-> nullptr, current |-> nullopt]
    /\ cnt = [sends |-> [s \in Senders |-> 0], calls |-> 0]
    /\ hist = [accepted |-> <<>>, delivered |-> <<>>, begun |-> FALSE,
               base |-> 0, start |-> 0, open |-> FALSE, out |-> <<>>,
               deq |-> 0, blocked |-> FALSE, closeCalled |-> FALSE,
               wasClosed |-> FALSE, retries |-> 0, busy |-> FALSE]

\* ----------------------------------------------------------------- helpers
\* a validate() that lets a moved-from handle through
validate_skipped(h) == TRUE

\* Sender::validate / Receiver::validate: the handle still holds the channel.
validate(h) == h = "valid"

\* std::unique_lock lock(mutex): blocks until the mutex is free.
Lock(t, from, to) ==
    /\ pc[t] = from
    /\ mutex = NoThread
    /\ mutex' = t
    /\ pc' = [pc EXCEPT ![t] = to]

\* a push at the head of the queue instead of its tail
push_front(q, v) == <<v>> \o q

\* queue.push(value)
push(q, v) == Append(q, v)

\* the tail of the queue read instead of its head
back(q) == q[Len(q)]

\* queue.front()
front(q) == Head(q)

\* a pop() that empties the queue
pop_all(q) == <<>>

\* queue.pop()
pop(q) == Tail(q)

\* the predicate of condvar.wait in receive()
WaitPred(q, c) == q # <<>> \/ c

\* send() without its closed check
SendNeverRejects(c) == FALSE

\* `if (_closed) throw` of send()
SendRejects(c) == c

\* a receive() that gives up whether closed or not
ReceiveRejectsAlways(c) == TRUE

\* `if (_closed) return nullopt` of receive(), before and after the wait
ReceiveRejects(c) == c

\* try_receive() without its closed check (it drains a closed channel)
TryReceiveDrains(c) == FALSE

\* `if (_closed) return {}` of try_receive()
TryReceiveRejects(c) == c

\* send() and close() that leave need_notify set
ClearNotify_forgot(n) == n

\* need_notify = false, in send() and close()
ClearNotify(n) == FALSE

\* receive() that forgets to ask for the notify
RequestNotify_forgot(n) == n

\* need_notify = true, in receive() before the wait
RequestNotify(n) == TRUE

\* a notify_one that wakes nobody
notify_lost(p) == p

\* condvar.notify_one(): the consumer, if suspended in the wait, is made
\* runnable; a signal nobody waits for is lost.
notify_one(p) == FALSE

\* the unlock-and-return that ends a call of thread t with result r
Return(t, to, r) ==
    /\ mutex' = NoThread
    /\ pc' = [pc EXCEPT ![t] = to]
    /\ res' = [res EXCEPT ![t] = r]

\* the value a Sender's next send() carries: its name and a serial number
Value(s) == <<s, cnt.sends[s]>>

\* ------------------------------------------------------------ Sender calls
\* Sender::send: validate(), then channel->send(value).
Sender_send(s) ==
    /\ pc[s] = "idle"
    /\ sender[s] \in {"valid", "null"}
    /\ IF validate(sender[s])
       THEN /\ cnt.sends[s] < MaxSends
            /\ cnt.calls < MaxCalls
            /\ cnt' = [cnt EXCEPT !.sends[s] = @ + 1, !.calls = @ + 1]
            /\ pc' = [pc EXCEPT ![s] = "send_lock"]
            /\ res' = res
       ELSE /\ res' = [res EXCEPT ![s] = invalid_argument]
            /\ UNCHANGED <<pc, cnt>>
    /\ UNCHANGED <<chan, mutex, parked, sender, receiver, ctx, it, hist>>

\* Sender::close: validate(), then channel->close().
Sender_close(s) ==
    /\ pc[s] = "idle"
    /\ sender[s] \in {"valid", "null"}
    /\ IF validate(sender[s])
       THEN /\ cnt.calls < MaxCalls
            /\ cnt' = [cnt EXCEPT !.calls = @ + 1]
            /\ pc' = [pc EXCEPT ![s] = "close_lock"]
            /\ res' = res
            /\ hist' = [hist EXCEPT !.closeCalled = TRUE]
       ELSE /\ res' = [res EXCEPT ![s] = invalid_argument]
            /\ UNCHANGED <<pc, cnt, hist>>
    /\ UNCHANGED <<chan, mutex, parked, sender, receiver, ctx, it>>

\* Sender::closed: validate(), then channel->closed().
Sender_closed(s) ==
    /\ pc[s] = "idle"
    /\ sender[s] \in {"valid", "null"}
    /\ IF validate(sender[s])
       THEN /\ cnt.calls < MaxCalls
            /\ cnt' = [cnt EXCEPT !.calls = @ + 1]
            /\ pc' = [pc EXCEPT ![s] = "closed_lock"]
            /\ res' = res
       ELSE /\ res' = [res EXCEPT ![s] = invalid_argument]
            /\ UNCHANGED <<pc, cnt>>
    /\ UNCHANGED <<chan, mutex, parked, sender, receiver, ctx, it, hist>>

\* ------------------------------------------------------------ Channel::send
Channel_send_lock(s) ==
    /\ Lock(s, "send_lock", "send")
    /\ UNCHANGED <<chan, parked, res, sender, receiver, ctx, it, cnt, hist>>

\* The body of send() under the lock: throw when closed, else push, and
\* when need_notify is set clear it and unlock before the notify_one.
Channel_send(s) ==
    /\ pc[s] = "send"
    /\ IF SendRejects(closed)
       THEN /\ Return(s, "idle", channel_closed_exception)
            /\ UNCHANGED <<chan, hist>>
       ELSE /\ queue' = push(queue, Value(s))
            /\ hist' = [hist EXCEPT !.accepted = Append(@, Value(s))]
            /\ closed' = closed
            /\ IF need_notify
               THEN /\ need_notify' = ClearNotify(need_notify)
                    /\ mutex' = NoThread
                    /\ pc' = [pc EXCEPT ![s] = "send_notify"]
                    /\ res' = res
               ELSE /\ need_notify' = need_notify
                    /\ Return(s, "idle", Void)
    /\ UNCHANGED <<parked, sender, receiver, ctx, it, cnt>>

Channel_send_notify(s) ==
    /\ pc[s] = "send_notify"
    /\ parked' = notify_one(parked)
    /\ pc' = [pc EXCEPT ![s] = "idle"]
    /\ res' = [res EXCEPT ![s] = Void]
    /\ UNCHANGED <<chan, mutex, sender, receiver, ctx, it, cnt, hist>>

\* ----------------------------------------------------------- Channel::close
Channel_close_lock(s) ==
    /\ Lock(s, "close_lock", "close")
    /\ UNCHANGED <<chan, parked, res, sender, receiver, ctx, it, cnt, hist>>

\* a close() that flips _closed
SetClosed_toggle(c) == ~c

\* _closed = true under the lock
SetClosed(c) == TRUE

Channel_close(s) ==
    /\ pc[s] = "close"
    /\ closed' = SetClosed(closed)
    /\ queue' = queue
    /\ IF need_notify
       THEN /\ need_notify' = ClearNotify(need_notify)
            /\ mutex' = NoThread
            /\ pc' = [pc EXCEPT ![s] = "close_notify"]
            /\ res' = res
       ELSE /\ need_notify' = need_notify
            /\ Return(s, "idle", Void)
    /\ UNCHANGED <<parked, sender, receiver, ctx, it, cnt, hist>>

Channel_close_notify(s) ==
    /\ pc[s] = "close_notify"
    /\ parked' = notify_one(parked)
    /\ pc' = [pc EXCEPT ![s] = "idle"]
    /\ res' = [res EXCEPT ![s] = Void]
    /\ UNCHANGED <<chan, mutex, sender, receiver, ctx, it, cnt, hist>>

\* ---------------------------------------------------------- Channel::closed
Channel_closed_lock(t) ==
    /\ Lock(t, "closed_lock", "closed")
    /\ UNCHANGED <<chan, parked, res, sender, receiver, ctx, it, cnt, hist>>

\* return _closed, under the lock.  A Sender's call is over; the consumer's
\* goes back to whatever made it (closed_ret).
Channel_closed(t) ==
    /\ pc[t] = "closed"
    /\ Return(t, IF t = Consumer THEN "closed_ret" ELSE "idle", Bool(closed))
    /\ UNCHANGED <<chan, parked, sender, receiver, ctx, it, cnt, hist>>

\* --------------------------------------------------------- Channel::receive
\* Receiver::receive: validate(), then channel->receive().
Receiver_receive(r) ==
    /\ pc[Consumer] = "idle"
    /\ receiver[r] \in {"valid", "null"}
    /\ IF validate(receiver[r])
       THEN /\ cnt.calls < MaxCalls
            /\ cnt' = [cnt EXCEPT !.calls = @ + 1]
            /\ pc' = [pc EXCEPT ![Consumer] = "receive_lock"]
            /\ res' = res
            /\ ctx' = "direct"
       ELSE /\ res' = [res EXCEPT ![Consumer] = invalid_argument]
            /\ UNCHANGED <<pc, cnt, ctx>>
    /\ UNCHANGED <<chan, mutex, parked, sender, receiver, it, hist>>

Channel_receive_lock ==
    /\ Lock(Consumer, "receive_lock", "receive")
    /\ UNCHANGED <<chan, parked, res, sender, receiver, ctx, it, cnt, hist>>

\* front() and pop() under the lock, and the return of the value
Dequeue ==
    /\ queue' = pop(queue)
    /\ hist' = [hist EXCEPT !.delivered = Append(@, front(queue)),
                            !.deq = IF ctx = "next" THEN @ + 1 ELSE @]
    /\ Return(Consumer, "receive_ret", Some(front(queue)))

\* a wait that suspends the caller without releasing the mutex
Park_holding ==
    /\ mutex' = mutex
    /\ parked' = TRUE
    /\ pc' = [pc EXCEPT ![Consumer] = "wait"]
    /\ res' = res
    /\ queue' = queue
    /\ hist' = [hist EXCEPT !.blocked = @ \/ ctx = "next"]

\* condvar.wait releases the mutex and suspends the caller, as one step
Park ==
    /\ mutex' = NoThread
    /\ parked' = TRUE
    /\ pc' = [pc EXCEPT ![Consumer] = "wait"]
    /\ res' = res
    /\ queue' = queue
    /\ hist' = [hist EXCEPT !.blocked = @ \/ ctx = "next"]

\* receive() after the wait, or when there was nothing to wait for:
\* nullopt when closed, else the head of the queue.
Channel_receive_take ==
    IF ReceiveRejects(closed)
    THEN /\ Return(Consumer, "receive_ret", nullopt)
         /\ UNCHANGED <<queue, hist>>
    ELSE Dequeue

\* receive() from the lock to the wait: nullopt when closed; on an empty
\* queue set need_notify and wait for the predicate; else take the head.
Channel_receive ==
    /\ pc[Consumer] = "receive"
    /\ closed' = closed
    /\ IF ReceiveRejects(closed)
       THEN /\ Return(Consumer, "receive_ret", nullopt)
            /\ UNCHANGED <<queue, need_notify, parked, hist>>
       ELSE IF queue = <<>>
            THEN /\ need_notify' = RequestNotify(need_notify)
                 /\ IF WaitPred(queue, closed)
                    THEN Channel_receive_take /\ parked' = parked
                    ELSE Park
            ELSE /\ Channel_receive_take
                 /\ UNCHANGED <<need_notify, parked>>
    /\ UNCHANGED <<sender, receiver, ctx, it, cnt>>

\* A thread suspended in the wait is made runnable without any notify.
SpuriousWakeup ==
    /\ pc[Consumer] = "wait"
    /\ parked
    /\ parked' = FALSE
    /\ UNCHANGED <<chan, mutex, pc, res, sender, receiver, ctx, it, cnt, hist>>

\* The woken consumer takes the mutex again before wait() looks at the
\* predicate.
Channel_receive_relock ==
    /\ ~parked
    /\ Lock(Consumer, "wait", "wait_pred")
    /\ UNCHANGED <<chan, parked, res, sender, receiver, ctx, it, cnt, hist>>

\* wait(lock, pred) after a wakeup: suspend again while the predicate is
\* false, else go on with the rest of receive().
Channel_receive_pred ==
    /\ pc[Consumer] = "wait_pred"
    /\ closed' = closed
    /\ need_notify' = need_notify
    /\ IF WaitPred(queue, closed)
       THEN Channel_receive_take /\ parked' = parked
       ELSE Park
    /\ UNCHANGED <<sender, receiver, ctx, it, cnt>>

\* ----------------------------------------------------- Channel::try_receive
\* a try_lock that takes the mutex whoever holds it
try_lock_steals(m) == {TRUE}

\* mutex.try_lock(): fails when the mutex is held, and is allowed to fail
\* when it is not.
try_lock(m) == IF m = NoThread THEN {TRUE, FALSE} ELSE {FALSE}

\* Receiver::try_receive: validate(), then channel->try_receive() up to its
\* try_lock.
Receiver_try_receive(r) ==
    /\ pc[Consumer] = "idle"
    /\ receiver[r] \in {"valid", "null"}
    /\ IF validate(receiver[r])
       THEN /\ cnt.calls < MaxCalls
            /\ cnt' = [cnt EXCEPT !.calls = @ + 1]
            /\ ctx' = "direct"
            /\ \E got \in try_lock(mutex) :
                 IF got
                 THEN /\ mutex' = Consumer
                      /\ pc' = [pc EXCEPT ![Consumer] = "try_receive"]
                      /\ res' = res
                 ELSE /\ mutex' = mutex
                      /\ pc' = pc
                      /\ res' = [res EXCEPT ![Consumer] = nullopt]
            /\ hist' = [hist EXCEPT !.busy = @ \/ (mutex # NoThread
                                                     /\ queue # <<>>
                                                     /\ ~closed)]
       ELSE /\ res' = [res EXCEPT ![Consumer] = invalid_argument]
            /\ UNCHANGED <<pc, cnt, ctx, mutex, hist>>
    /\ UNCHANGED <<chan, parked, sender, receiver, it>>

\* try_receive() under the lock: nothing when closed or empty, else the head.
Channel_try_receive ==
    /\ pc[Consumer] = "try_receive"
    /\ IF TryReceiveRejects(closed) \/ queue = <<>>
       THEN /\ Return(Consumer, "idle", nullopt)
            /\ UNCHANGED <<queue, hist>>
       ELSE /\ queue' = pop(queue)
            /\ hist' = [hist EXCEPT !.delivered = Append(@, front(queue))]
            /\ Return(Consumer, "idle", Some(front(queue)))
    /\ UNCHANGED <<closed, need_notify, parked, sender, receiver, ctx, it, cnt>>

\* Receiver::closed: validate(), then channel->closed().
Receiver_closed(r) ==
    /\ pc[Consumer] = "idle"
    /\ receiver[r] \in {"valid", "null"}
    /\ IF validate(receiver[r])
       THEN /\ cnt.calls < MaxCalls
            /\ cnt' = [cnt EXCEPT !.calls = @ + 1]
            /\ pc' = [pc EXCEPT ![Consumer] = "closed_lock"]
            /\ res' = res
            /\ ctx' = "direct"
       ELSE /\ res' = [res EXCEPT ![Consumer] = invalid_argument]
            /\ UNCHANGED <<pc, cnt, ctx>>
    /\ UNCHANGED <<chan, mutex, parked, sender, receiver, it, hist>>

\* ------------------------------------------------------ Receiver<T>::iterator
\* Receiver::begin(): iterator(*this).  The constructor binds the receiver
\* and asks receiver->closed(), which validates the handle first.
iterator_begin(r) ==
    /\ pc[Consumer] = "idle"
    /\ receiver[r] \in {"valid", "null"}
    /\ IF validate(receiver[r])
       THEN /\ cnt.calls < MaxCalls
            /\ cnt' = [cnt EXCEPT !.calls = @ + 1]
            /\ it' = [receiver |-> r, current |-> nullopt]
            /\ pc' = [pc EXCEPT ![Consumer] = "closed_lock"]
            /\ res' = res
            /\ ctx' = "ctor"
            /\ hist' = [hist EXCEPT !.begun = TRUE,
                                    !.base = Len(hist.delivered),
                                    !.start = Len(hist.accepted),
                                    !.open = ~closed /\ ~hist.closeCalled,
                                    !.out = <<>>,
                                    !.deq = 0,
                                    !.blocked = FALSE,
                                    !.wasClosed = closed,
                                    !.retries = 0]
       ELSE /\ res' = [res EXCEPT ![Consumer] = invalid_argument]
            /\ UNCHANGED <<pc, cnt, ctx, it, hist>>
    /\ UNCHANGED <<chan, mutex, parked, sender, receiver>>

\* operator++: next().  An iterator without a receiver returns at once;
\* else the loop starts with receiver->closed().
iterator_inc ==
    /\ pc[Consumer] = "idle"
    /\ IF it.receiver = nullptr
       THEN /\ res' = [res EXCEPT ![Consumer] = Void]
            /\ UNCHANGED <<pc, cnt, ctx, hist>>
       ELSE IF validate(receiver[it.receiver])
            THEN /\ cnt.calls < MaxCalls
                 /\ cnt' = [cnt EXCEPT !.calls = @ + 1]
                 /\ pc' = [pc EXCEPT ![Consumer] = "closed_lock"]
                 /\ res' = res
                 /\ ctx' = "next"
                 /\ hist' = [hist EXCEPT !.retries = 0]
            ELSE /\ res' = [res EXCEPT ![Consumer] = invalid_argument]
                 /\ UNCHANGED <<pc, cnt, ctx, hist>>
    /\ UNCHANGED <<chan, mutex, parked, sender, receiver, it>>

\* a constructor that does not look at closed()
CtorIgnoresClosed(r) == FALSE

\* `if (this->receiver->closed())` of the constructor
CtorEnds(r) == r = Bool(TRUE)

\* a next() that does not look at closed()
NextNeverEnds(r) == FALSE

\* `if (receiver->closed())` of next()
NextEnds(r) == r = Bool(TRUE)

\* The constructor after closed(): closed drops the receiver (the iterator
\* equals end()), else next() is entered, which asks closed() again.
iterator_ctor ==
    /\ pc[Consumer] = "closed_ret"
    /\ ctx = "ctor"
    /\ IF CtorEnds(res[Consumer])
       THEN /\ it' = [it EXCEPT !.receiver = nullptr]
            /\ pc' = [pc EXCEPT ![Consumer] = "idle"]
            /\ ctx' = ctx
       ELSE /\ it' = it
            /\ pc' = [pc EXCEPT ![Consumer] = "closed_lock"]
            /\ ctx' = "next"
    /\ UNCHANGED <<chan, mutex, parked, res, sender, receiver, cnt, hist>>

\* next() after closed(): closed ends the iterator (receiver = nullptr,
\* current.reset()), else receiver->receive().
iterator_next_closed ==
    /\ pc[Consumer] = "closed_ret"
    /\ ctx = "next"
    /\ IF NextEnds(res[Consumer])
       THEN /\ it' = [receiver |-> nullptr, current |-> nullopt]
            /\ pc' = [pc EXCEPT ![Consumer] = "idle"]
       ELSE /\ it' = it
            /\ pc' = [pc EXCEPT ![Consumer] = "receive_lock"]
    /\ UNCHANGED <<chan, mutex, parked, res, sender, receiver, ctx, cnt, hist>>

\* `if (not tmp.has_value()) continue` of next()
NextRetries(r) == r = nullopt

\* next() that returns without storing what it received
emplace_dropped(cur, tmp) == cur

\* current.emplace(std::move(tmp.value()))
emplace(cur, tmp) == tmp

\* next() after receive(): nothing received goes round the loop, a value is
\* put in current and next() returns.
iterator_next_received ==
    /\ pc[Consumer] = "receive_ret"
    /\ ctx = "next"
    /\ IF NextRetries(res[Consumer])
       THEN /\ pc' = [pc EXCEPT ![Consumer] = "closed_lock"]
            /\ it' = it
            /\ hist' = [hist EXCEPT !.retries = @ + 1]
       ELSE /\ it' = [it EXCEPT !.current = emplace(@, res[Consumer])]
            /\ hist' = [hist EXCEPT !.out = Append(@, it'.current.v)]
            /\ pc' = [pc EXCEPT ![Consumer] = "idle"]
    /\ UNCHANGED <<chan, mutex, parked, res, sender, receiver, ctx, cnt>>

\* Receiver::receive / Receiver::closed hand the channel's answer back.
Receiver_return ==
    /\ pc[Consumer] \in {"receive_ret", "closed_ret"}
    /\ ctx = "direct"
    /\ pc' = [pc EXCEPT ![Consumer] = "idle"]
    /\ UNCHANGED <<chan, mutex, parked, res, sender, receiver, ctx, it, cnt, hist>>

\* --------------------------------------------------------------- the handles
\* Sender(const Sender&): the copy shares the source's channel pointer.
Sender_copy(src, dst) ==
    /\ cnt.calls < MaxCalls
    /\ cnt' = [cnt EXCEPT !.calls = @ + 1]
    /\ sender[src] \in {"valid", "null"}
    /\ sender[dst] = "unborn"
    /\ sender' = [sender EXCEPT ![dst] = sender[src]]
    /\ UNCHANGED <<chan, mutex, parked, pc, res, receiver, ctx, it, hist>>

\* Sender(Sender&&): the pointer moves, the source is left null.
Sender_move(src, dst) ==
    /\ cnt.calls < MaxCalls
    /\ cnt' = [cnt EXCEPT !.calls = @ + 1]
    /\ pc[src] = "idle"
    /\ sender[src] \in {"valid", "null"}
    /\ sender[dst] = "unborn"
    /\ sender' = [sender EXCEPT ![dst] = sender[src], ![src] = "null"]
    /\ UNCHANGED <<chan, mutex, parked, pc, res, receiver, ctx, it, hist>>

\* a destructor that closes the channel
DestroyClosesChannel(c) == TRUE

\* a destructor that opens the channel again
DestroyReopens(c) == FALSE

\* what the end of a Sender's life does to _closed: nothing (the class has
\* no destructor of its own; the shared_ptr drops one reference)
DestroyCloses(c) == c

\* ~Sender()
Sender_destroy(s) ==
    /\ cnt.calls < MaxCalls
    /\ cnt' = [cnt EXCEPT !.calls = @ + 1]
    /\ pc[s] = "idle"
    /\ sender[s] \in {"valid", "null"}
    /\ sender' = [sender EXCEPT ![s] = "dead"]
    /\ closed' = DestroyCloses(closed)
    /\ UNCHANGED <<queue, need_notify, mutex, parked, pc, res, receiver, ctx,
                   it, hist>>

\* Receiver(Receiver&&): the pointer moves, the source is left null.
Receiver_move(src, dst) ==
    /\ cnt.calls < MaxCalls
    /\ cnt' = [cnt EXCEPT !.calls = @ + 1]
    /\ pc[Consumer] = "idle"
    /\ receiver[src] \in {"valid", "null"}
    /\ receiver[dst] = "unborn"
    /\ receiver' = [receiver EXCEPT ![dst] = receiver[src], ![src] = "null"]
    /\ UNCHANGED <<chan, mutex, parked, pc, res, sender, ctx, it, hist>>

\* ------------------------------------------------------------ specification
SenderStep(s) ==
    \/ Channel_send_lock(s)
    \/ Channel_send(s)
    \/ Channel_send_notify(s)
    \/ Channel_close_lock(s)
    \/ Channel_close(s)
    \/ Channel_close_notify(s)
    \/ Channel_closed_lock(s)
    \/ Channel_closed(s)

ConsumerStep ==
    \/ Channel_receive_lock
    \/ Channel_receive
    \/ Channel_receive_relock
    \/ Channel_receive_pred
    \/ Channel_try_receive
    \/ Channel_closed_lock(Consumer)
    \/ Channel_closed(Consumer)
    \/ iterator_ctor
    \/ iterator_next_closed
    \/ iterator_next_received
    \/ Receiver_return

Next ==
    \/ \E s \in Senders : Sender_send(s) \/ Sender_close(s) \/ Sender_closed(s)
    \/ \E s \in Senders : SenderStep(s)
    \/ \E r \in Receivers :
         Receiver_receive(r) \/ Receiver_try_receive(r) \/ Receiver_closed(r)
    \/ \E r \in Receivers : iterator_begin(r)
    \/ iterator_inc
    \/ ConsumerStep
    \/ SpuriousWakeup
    \/ \E src, dst \in Senders : Sender_copy(src, dst) \/ Sender_move(src, dst)
    \/ \E s \in Senders : Sender_destroy(s)
    \/ \E src, dst \in Receivers : Receiver_move(src, dst)

Spec == Init /\ [][Next]_vars

\* A thread inside a call is scheduled again: it gets the mutex once the
\* mutex stays free, and finishes what it does under it.  Nothing obliges a
\* thread to make a call, and nothing promises a spurious wakeup.
FairSpec ==
    /\ Spec
    /\ \A s \in Senders : WF_vars(SenderStep(s))
    /\ WF_vars(ConsumerStep)

\* Fair scheduling with a mutex that does not starve a thread waiting in
\* lock(): a producer inside a call that finds the mutex free again and
\* again gets it, also when the consumer keeps taking it after wakeups.
FairLockSpec ==
    /\ Spec
    /\ \A s \in Senders : SF_vars(SenderStep(s))
    /\ WF_vars(ConsumerStep)

\* =================================================================== claims
Proj(seq, s) == SelectSeq(seq, LAMBDA v : v[1] = s)
IsPrefix(a, b) == Len(a) <= Len(b) /\ SubSeq(b, 1, Len(a)) = a
LiveSenders == {s \in Senders : sender[s] = "valid"}
NotifyPending == \E s \in Senders : pc[s] \in {"send_notify", "close_notify"}
InIterator == pc[Consumer] # "idle" /\ ctx \in {"ctor", "next"}
\* the values that were in the queue when begin() was called
AtBegin == SubSeq(hist.accepted, hist.base + 1, hist.start)
\* since begin() every dequeue was the iterator's
OnlyIterator == hist.begun /\ hist.deq = Len(hist.delivered) - hist.base

\* C1: on an open channel, what the consumer has received from a producer
\* is, in order and without gaps or repeats, the beginning of what that
\* producer's completed sends enqueued, whatever the other producers did;
\* the rest of it is still in the queue, in the same order.
C1_PerProducerFIFO ==
    ~closed =>
        \A s \in Senders :
            /\ IsPrefix(Proj(hist.delivered, s), Proj(hist.accepted, s))
            /\ Proj(hist.delivered \o queue, s) = Proj(hist.accepted, s)
            /\ \A i \in DOMAIN Proj(hist.accepted, s) :
                   Proj(hist.accepted, s)[i][2] = i

C1_Witness ==
    /\ ~closed
    /\ Cardinality(LiveSenders) = 2
    /\ \E s \in Senders : Len(Proj(hist.delivered, s)) = 2

\* C2: the step of send() under the lock, taken while closed is true, ends
\* the call with channel_closed_exception and leaves the queue, closed,
\* need_notify and the parked consumer as they were: nothing is enqueued
\* and no notify is issued.
C2_SendAfterClose ==
    [][\A s \in Senders :
         (pc[s] = "send" /\ closed /\ pc'[s] # "send") =>
            /\ res'[s] = channel_closed_exception
            /\ pc'[s] = "idle"
            /\ UNCHANGED <<queue, closed, need_notify, parked>>
            /\ hist'.accepted = hist.accepted]_vars

C2_Witness ==
    /\ closed
    /\ queue # <<>>
    /\ sender["tx2"] = "valid"
    /\ pc["tx2"] = "idle"
    /\ res["tx2"] = channel_closed_exception

\* C3: a consumer suspended in the wait of receive() once close() has set
\* closed comes back from receive(), and with no value, whatever sends and
\* late notifies are interleaved with the close.
C3_CloseWakesReceiver ==
    (pc[Consumer] = "wait" /\ closed)
        ~> (pc[Consumer] = "receive_ret" /\ res[Consumer] = nullopt)

C3_Witness ==
    /\ pc[Consumer] = "wait"
    /\ parked
    /\ closed
    /\ queue # <<>>

\* C4: a consumer suspended in the wait of receive() while the queue is
\* non-empty or the channel closed comes back from receive(); whenever it is
\* suspended with the predicate true a notify_one is still to come; and what
\* it returns after the wait is the head of the queue, or nothing when
\* close() got in first.
C4_NoLostWakeup ==
    /\ (pc[Consumer] = "wait" /\ WaitPred(queue, closed))
           ~> (pc[Consumer] = "receive_ret")
    /\ [](parked /\ WaitPred(queue, closed) => NotifyPending)
    /\ [][(pc[Consumer] = "wait_pred" /\ pc'[Consumer] = "receive_ret") =>
            res'[Consumer] = IF closed THEN nullopt ELSE Some(Head(queue))]_vars

C4_Witness ==
    /\ pc[Consumer] = "wait"
    /\ parked
    /\ ~closed
    /\ queue # <<>>
    /\ ~need_notify

\* C5: while closed is true no step changes the queue or delivers anything,
\* and receive() and try_receive() give back no value, also when the queue
\* still holds values.
C5_DiscardOnClose ==
    [][closed =>
         /\ queue' = queue
         /\ hist'.delivered = hist.delivered
         /\ (pc[Consumer] \in {"receive", "wait_pred"}
                /\ pc'[Consumer] = "receive_ret" => res'[Consumer] = nullopt)
         /\ (pc[Consumer] = "try_receive" /\ pc'[Consumer] = "idle"
                => res'[Consumer] = nullopt)]_vars

C5_Witness ==
    /\ closed
    /\ queue # <<>>
    /\ pc[Consumer] = "receive_ret"
    /\ ctx = "direct"
    /\ res[Consumer] = nullopt

\* C6: while close() has never been called, receiver.closed() answers true
\* exactly when no Sender handle bound to the channel is left.
C6_ClosedWhenLastSenderGone ==
    [][(pc[Consumer] = "closed" /\ pc'[Consumer] = "closed_ret"
            /\ ~hist.closeCalled) =>
         res'[Consumer] = Bool(LiveSenders = {})]_vars

C8_ManualCloseKeepsOpen ==
    [][(pc[Consumer] = "closed" /\ pc'[Consumer] = "closed_ret"
            /\ hist.closeCalled) =>
         res'[Consumer] = Bool(LiveSenders = {})]_vars

\* the iterator has come to its end, having been started (begin() entered)
\* on an open channel that held one value, before any call of close(), with
\* nothing sent since
EndedOnOneValue ==
    /\ hist.begun
    /\ hist.open
    /\ pc[Consumer] = "idle"
    /\ it.receiver = nullptr
    /\ hist.start - hist.base = 1
    /\ Len(hist.accepted) = hist.start

\* C9 as stated: started on an open channel holding one value, with close()
\* called at any time after begin() was entered, the iterator has delivered
\* exactly that value when it ends.
C9_DeliversEnqueuedValue ==
    EndedOnOneValue => hist.out = AtBegin

\* C9 amended: when close() takes effect only after the iterator has
\* dequeued the value, the iterator has delivered exactly that value when it
\* ends; an iterator that has not ended holds a value, never an empty
\* element; and an iterator call that is under way when the channel is
\* closed returns.
C9_DeliversDequeuedValue ==
    /\ [](EndedOnOneValue /\ Len(hist.delivered) > hist.base
             => hist.out = AtBegin)
    /\ [](pc[Consumer] = "idle" /\ it.receiver # nullptr
             => it.current.k = "value")
    /\ (InIterator /\ closed) ~> (pc[Consumer] = "idle")

C9_Witness ==
    /\ EndedOnOneValue
    /\ Len(hist.delivered) > hist.base
    /\ hist.blocked
    /\ hist.out = AtBegin

\* C10: an iterator that alone dequeues delivers the values that were in
\* the queue at begin() in the order they were sent; when it has delivered
\* as many as there were, the queue holds only what was sent since; it has
\* not waited before that; and it never has dequeued more than one value
\* beyond those it delivered.
C10_DrainOrder ==
    OnlyIterator =>
        /\ IsPrefix(hist.out, SubSeq(hist.accepted, hist.base + 1,
                                     Len(hist.accepted)))
        /\ (pc[Consumer] = "idle" /\ Len(hist.out) = Len(AtBegin) =>
               /\ hist.out = AtBegin
               /\ queue = SubSeq(hist.accepted, hist.start + 1,
                                 Len(hist.accepted)))
        /\ (hist.blocked => Len(hist.out) >= Len(AtBegin))
        /\ hist.deq <= Len(hist.out) + 1
        /\ (pc[Consumer] = "idle" => hist.deq = Len(hist.out))

C10_Witness ==
    /\ OnlyIterator
    /\ ~closed
    /\ pc[Consumer] = "idle"
    /\ Len(AtBegin) = 2
    /\ hist.out = AtBegin
    /\ AtBegin[1][1] # AtBegin[2][1]
    /\ queue = <<>>
    /\ ~hist.blocked

\* a call made through Sender handle s, in any state of the handle
SenderCall(s) == Sender_send(s) \/ Sender_close(s) \/ Sender_closed(s)
\* a call made through Receiver handle r, in any state of the handle
ReceiverCall(r) ==
    \/ Receiver_receive(r)
    \/ Receiver_try_receive(r)
    \/ Receiver_closed(r)
    \/ iterator_begin(r)

\* C11: a call through a moved-from Sender or Receiver handle ends with
\* invalid_argument and changes nothing of the channel, the mutex, the
\* waiting consumer or the handles; a call through a handle that holds the
\* channel never ends with invalid_argument, whatever was moved elsewhere.
C11_UseAfterMove ==
    [][/\ \A s \in Senders :
            sender[s] = "null" /\ SenderCall(s) =>
                /\ res'[s] = invalid_argument
                /\ UNCHANGED <<chan, mutex, parked, pc, sender, receiver,
                               it, hist>>
       /\ \A r \in Receivers :
            receiver[r] = "null" /\ ReceiverCall(r) =>
                /\ res'[Consumer] = invalid_argument
                /\ UNCHANGED <<chan, mutex, parked, pc, sender, receiver,
                               it, hist>>
       /\ \A s \in Senders :
            sender[s] = "valid" /\ SenderCall(s) =>
                pc'[s] # "idle" /\ res'[s] = res[s]
       /\ \A r \in Receivers :
            receiver[r] = "valid" /\ ReceiverCall(r) =>
                ~(pc'[Consumer] = "idle" /\ res'[Consumer] = invalid_argument)]_vars

C11_Witness ==
    /\ sender["tx1"] = "null"
    /\ res["tx1"] = invalid_argument
    /\ receiver["rx1"] = "null"
    /\ res[Consumer] = invalid_argument
    /\ hist.accepted = << <<"tx2", 1>> >>
    /\ pc["tx2"] = "idle"

C13_TryReceiveNeverBlocks ==
    /\ [][\A r \in Receivers :
            receiver[r] = "valid" /\ Receiver_try_receive(r) =>
                /\ \/ pc'[Consumer] = "idle" /\ res'[Consumer] = nullopt
                   \/ /\ pc'[Consumer] = "try_receive"
                      /\ mutex = NoThread
                      /\ mutex' = Consumer
                /\ mutex # NoThread =>
                      /\ pc'[Consumer] = "idle"
                      /\ res'[Consumer] = nullopt
                      /\ UNCHANGED <<chan, mutex, parked>>
                      /\ hist'.delivered = hist.delivered]_vars
    /\ [](pc[Consumer] = "try_receive" => mutex = Consumer)
    /\ [][(pc[Consumer] = "try_receive" /\ pc'[Consumer] # "try_receive") =>
            /\ pc'[Consumer] = "idle"
            /\ mutex' = NoThread
            /\ IF closed \/ queue = <<>>
               THEN res'[Consumer] = nullopt /\ queue' = queue
               ELSE /\ res'[Consumer] = Some(Head(queue))
                    /\ queue' = Tail(queue)]_vars

C13_Witness ==
    /\ hist.busy
    /\ pc[Consumer] = "idle"
    /\ res[Consumer] = nullopt
    /\ mutex \in Senders
    /\ queue # <<>>
    /\ ~closed

\* C14: no step takes closed from true to false; and while closed is true
\* no send is accepted and every closed() answers true.
C14_ClosedMonotonic ==
    [][closed =>
         /\ closed'
         /\ hist'.accepted = hist.accepted
         /\ \A t \in Threads :
               (pc[t] = "closed" /\ pc'[t] # "closed") =>
                   res'[t] = Bool(TRUE)]_vars

C14_Witness ==
    /\ closed
    /\ \E s \in Senders : sender[s] = "dead"
    /\ \E s \in Senders : pc[s] = "idle" /\ res[s] = channel_closed_exception
    /\ pc[Consumer] = "idle"
    /\ res[Consumer] = Bool(TRUE)

\* C15: an iterator started when the channel was already closed equals
\* end() when its constructor returns, has delivered nothing, has dequeued
\* nothing, did not wait and did not enter next() or receive(), whatever
\* the queue holds.
C15_BeginOnClosed ==
    hist.begun /\ hist.wasClosed =>
        /\ hist.out = <<>>
        /\ hist.deq = 0
        /\ ~hist.blocked
        /\ ctx # "next"
        /\ (ctx = "ctor" =>
               pc[Consumer] \in {"idle", "closed_lock", "closed", "closed_ret"})
        /\ (pc[Consumer] = "idle" =>
               it.receiver = nullptr /\ it.current = nullopt)

C15_Witness ==
    /\ hist.begun
    /\ hist.wasClosed
    /\ queue # <<>>
    /\ ctx = "ctor"
    /\ pc[Consumer] = "idle"
    /\ it.receiver = nullptr

\* the iterator equals end() and no call is running
AdapterAtEnd == pc[Consumer] = "idle" /\ it.receiver = nullptr
\* receive() has taken a value off the queue and has not yet handed it over
HoldsDequeued == pc[Consumer] = "receive_ret" /\ res[Consumer].k = "value"
\* a closed() asked by the iterator has answered true
IteratorSawClosed ==
    /\ pc[Consumer] = "closed_ret"
    /\ ctx \in {"ctor", "next"}
    /\ res[Consumer] = Bool(TRUE)

\* the iterator comes to its end only with closed true, the step after a
\* closed() that answered true is the end, and nothing is dequeued for the
\* iterator once closed is true
AdapterEndsOnlyClosed ==
    /\ [][(it.receiver # nullptr /\ it'.receiver = nullptr) => closed]_vars
    /\ [][(IteratorSawClosed /\ pc'[Consumer] # "closed_ret") =>
             AdapterAtEnd']_vars
    /\ [][closed => hist'.delivered = hist.delivered /\ queue' = queue]_vars

\* C16 as stated: the iterator ends only with closed true, and once closed
\* is true every begin() or operator++ in progress or started later returns
\* at the end, and does return, with nothing dequeued after the close.
C16_EndsOnceClosed ==
    /\ AdapterEndsOnlyClosed
    /\ [][(InIterator /\ closed /\ pc'[Consumer] = "idle") =>
             it'.receiver = nullptr]_vars
    /\ (InIterator /\ closed) ~> AdapterAtEnd

\* C16: the iterator ends only with closed true, nothing is dequeued once
\* closed is true, and once closed is true every begin() or operator++ in
\* progress or started later comes to the end, except an operator++ whose
\* receive() had taken its value off the queue before closed was set: that
\* one returns with the value in current, and the iterator is not at end.
C16_EndsOnceClosedUnlessDequeued ==
    /\ AdapterEndsOnlyClosed
    /\ [][(InIterator /\ closed /\ ~HoldsDequeued /\ pc'[Consumer] = "idle") =>
             it'.receiver = nullptr]_vars
    /\ (InIterator /\ closed /\ ~HoldsDequeued) ~> AdapterAtEnd
    /\ [][(InIterator /\ HoldsDequeued /\ pc'[Consumer] # "receive_ret") =>
             /\ pc'[Consumer] = "idle"
             /\ it'.receiver # nullptr
             /\ it'.current = res[Consumer]]_vars

C16_Witness ==
    /\ hist.begun
    /\ ~hist.wasClosed
    /\ hist.blocked
    /\ AdapterAtEnd
    /\ closed
    /\ hist.out = <<>>
    /\ queue = <<>>

\* C17: under fair scheduling every producer is again and again outside
\* any call, so each send(), close() and closed() comes to its return, also
\* with the consumer suspended in the wait of receive(); the consumer is
\* again and again outside closed();
\* the thread suspended in the wait never holds the mutex; and the thread
\* that holds the mutex can always take its next step.
C17_OnlyReceiveSuspends ==
    /\ \A s \in Senders : []<>(pc[s] = "idle")
    /\ []<>(pc[Consumer] \notin {"closed_lock", "closed"})
    /\ [](pc[Consumer] = "wait" => mutex # Consumer)
    /\ [](\A s \in Senders : mutex = s => ENABLED SenderStep(s))
    /\ [](mutex = Consumer => ENABLED ConsumerStep)

C17_Witness ==
    /\ parked
    /\ pc[Consumer] = "wait"
    /\ mutex \in Senders
    /\ pc[mutex] = "closed"

\* C18: need_notify is true only with the consumer inside the wait of
\* receive() (suspended, or awake with the predicate still to check), with
\* the queue empty and the channel open; with the mutex free the consumer is
\* then in the wait itself; need_notify is false when receive() returns.
C18_WaitingFlag ==
    /\ need_notify =>
          /\ pc[Consumer] \in {"wait", "wait_pred"}
          /\ queue = <<>>
          /\ ~closed
    /\ (need_notify /\ mutex = NoThread) => pc[Consumer] = "wait"
    /\ pc[Consumer] \in {"receive_ret", "idle"} => ~need_notify

C18_Witness ==
    /\ need_notify
    /\ mutex = NoThread
    /\ parked
    /\ hist.accepted # <<>>
    /\ hist.delivered # <<>>

\* C19: receive() returns nullopt only with closed true; a wait that ends
\* has a value to take or a closed channel; next() goes round its loop only
\* with closed true, at most once, and the closed() it then asks answers
\* true.
C19_NulloptOnlyWhenClosed ==
    /\ []((pc[Consumer] = "receive_ret" /\ res[Consumer] = nullopt) => closed)
    /\ [][(pc[Consumer] \in {"wait", "wait_pred"}
             /\ pc'[Consumer] = "receive_ret") =>
                \/ closed /\ res'[Consumer] = nullopt
                \/ ~closed /\ queue # <<>> /\ res'[Consumer] = Some(Head(queue))]_vars
    /\ [][hist'.retries > hist.retries => closed]_vars
    /\ [](hist.retries <= 1)
    /\ []((hist.retries = 1 /\ pc[Consumer] = "closed_ret" /\ ctx = "next")
             => res[Consumer] = Bool(TRUE))

C19_Witness ==
    /\ hist.retries = 1
    /\ hist.blocked
    /\ AdapterAtEnd

Range(seq) == {seq[i] : i \in DOMAIN seq}

\* C20: what the successful sends enqueued is, in order, what receive() and
\* try_receive() have returned followed by what is in the queue; no value
\* occurs twice in it; the iterator's current and the consumer's last value
\* are values that were returned; and the value of a send that ended with
\* channel_closed_exception is nowhere.
C20_Conservation ==
    /\ hist.delivered \o queue = hist.accepted
    /\ \A i, j \in DOMAIN hist.accepted :
          hist.accepted[i] = hist.accepted[j] => i = j
    /\ it.current.k = "value" => it.current.v \in Range(hist.delivered)
    /\ res[Consumer].k = "value" => res[Consumer].v \in Range(hist.delivered)
    /\ \A s \in Senders :
          (pc[s] = "idle" /\ res[s] = channel_closed_exception) =>
              Value(s) \notin Range(hist.accepted)

C20_Witness ==
    /\ it.current.k = "value"
    /\ pc[Consumer] = "idle"
    /\ hist.delivered # <<>>
    /\ \E s \in Senders :
          /\ pc[s] = "idle"
          /\ res[s] = channel_closed_exception
          /\ cnt.sends[s] = 2

====
